---------------------------- MODULE Spec2Model ----------------------------
(***************************************************************************)
(* Attendance checker (src/index.js): a timer-triggered function that logs *)
(* in, fetches the registered courses, compares each course's (present,    *)
(* total) counters with the snapshot stored in Firebase, sends a Telegram  *)
(* message per changed course and saves the new snapshot.                  *)
(*                                                                         *)
(* Spec      models the entry point (module.exports) over several          *)
(*           invocations, one action per awaited step.                     *)
(* SpecCalc  applies the two pure computations (the classification of      *)
(*           lines 181-188 and calculateAttendanceMessage) to inputs drawn *)
(*           from a wider range of counters.                               *)
(***************************************************************************)
EXTENDS Integers, Sequences, FiniteSets

VARIABLES
    stored,     \* Firebase 'attendance/state': course code -> counters
    pc,         \* position of the running invocation
    run,        \* number of the running invocation
    courses,    \* the list fetch_courses returned
    prevState,  \* const prevState (line 169)
    newState,   \* const newState (line 170)
    i,          \* position of the for-of loop in courses (1-based)
    sent,       \* attendance messages handed to send_telegram (line 192)
    errorSent,  \* error messages handed to send_telegram (line 206)
    saves,      \* calls of saveAttendanceState in this invocation
    err,        \* message of the error caught at line 203, "none" if none
    loadOk,     \* whether the Firebase read of this invocation succeeded
    stored0,    \* history: stored when this invocation started
    last,       \* history: the previous invocation
    cpc,        \* SpecCalc: position
    cIn,        \* SpecCalc: inputs
    cStatus,    \* SpecCalc: classification result
    cMsg        \* SpecCalc: message computed by calculateAttendanceMessage

runVars  == <<stored, pc, run, courses, prevState, newState, i, sent,
              errorSent, saves, err, loadOk, stored0, last>>
calcVars == <<cpc, cIn, cStatus, cMsg>>
vars     == <<runVars, calcVars>>

---------------------------------------------------------------------------
(* Bounds *)

MaxCount == 1
MaxCourses == 2
MaxRuns == 2
MaxLectures == 6

CourseCodes == {"A", "B"}

---------------------------------------------------------------------------
(* Data *)

EmptyState == [k \in {} |-> [present |-> 0, total |-> 0]]

\* A course record of the API: courseCode and studentCourseCompDetails, of
\* which only element [0] is read.  An empty list makes comp undefined.
CompDetails(n) == [presentLecture : 0..n, totalLecture : 0..n]

CourseRecords(n) ==
    [courseCode : CourseCodes,
     studentCourseCompDetails : {<<>>} \cup {<<d>> : d \in CompDetails(n)}]

CourseLists(n, len) ==
    UNION {[1..k -> CourseRecords(n)] : k \in 0..len}

---------------------------------------------------------------------------
(* Pure computations *)

\* prevState[code] || { present: 0, total: 0 }
OldCounters(prev, code) ==
    IF code \in DOMAIN prev THEN prev[code] ELSE [present |-> 0, total |-> 0]

\* old.present !== present || old.total !== total  (line 182)
ChangedTotalOnly(old, present, total) == old.total # total

Changed(old, present, total) ==
    old.present # present \/ old.total # total

\* The status of lines 183-188; "Unchanged" stands for the if at line 182
\* not being entered.
classifyAbsentLoose(old, present, total) ==
    IF ~Changed(old, present, total) THEN "Unchanged"
    ELSE IF total > old.total /\ present > old.present THEN "Present"
    ELSE IF total > old.total THEN "Absent"
    ELSE "Unknown"

classify(old, present, total) ==
    IF ~Changed(old, present, total) THEN "Unchanged"
    ELSE IF total > old.total /\ present > old.present THEN "Present"
    ELSE IF total > old.total /\ present = old.present THEN "Absent"
    ELSE "Unknown"

\* Math.floor and Math.ceil of the rational num/den, den > 0.
Floor(num, den) == num \div den
Ceil(num, den) == -((-num) \div den)
Max(a, b) == IF a >= b THEN a ELSE b

\* statusMap[status] || "UNKNOWN"  (lines 103-108)
StatusText(status) ==
    IF status = "Present" THEN "PRESENT"
    ELSE IF status = "Absent" THEN "ABSENT"
    ELSE "UNKNOWN"

\* total > 0 ? (present / total * 100) : 0, as the rational
\* PercentageNum / PercentageDen.
PercentageNum(present, total) == IF total > 0 THEN present * 100 ELSE 0
PercentageDen(present, total) == IF total > 0 THEN total ELSE 1

\* percentage < 75  (line 117)
IsCriticalInclusive(present, total) ==
    PercentageNum(present, total) <= 75 * PercentageDen(present, total)

IsCritical(present, total) ==
    PercentageNum(present, total) < 75 * PercentageDen(present, total)

\* Math.ceil((0.75 * total - present) / 0.25): in hundredths the quotient
\* is (75*total - 100*present) / 25.
LecturesNeeded(present, total) ==
    Ceil(75 * total - 100 * present, 25)

\* Math.floor(present / 0.75 - total): (100*present - 75*total) / 75.
LecturesSkippableCeil(present, total) ==
    Ceil(100 * present - 75 * total, 75)

LecturesSkippable(present, total) ==
    Floor(100 * present - 75 * total, 75)

\* The message, by the fields that vary: the course label, the status
\* line, the counters, the alert block and the number printed in it.
calculateAttendanceMessage(course, present, total, status) ==
    [course     |-> course,
     statusText |-> StatusText(status),
     present    |-> present,
     total      |-> total,
     severity   |-> IF IsCritical(present, total) THEN "Critical" ELSE "Secure",
     action     |-> IF IsCritical(present, total)
                    THEN Max(0, LecturesNeeded(present, total))
                    ELSE Max(0, LecturesSkippable(present, total))]

\* const newState = {}  (line 170)
InitialNewStateFromPrev(prev) == prev

InitialNewState(prev) == EmptyState

\* newState[code] = { present, total }  (line 179)
RecordCounters(ns, code, present, total) ==
    [k \in DOMAIN ns \cup {code} |->
        IF k = code THEN [present |-> present, total |-> total] ELSE ns[k]]

\* getAttendanceState: the stored value when the read succeeds and a value
\* exists, {} otherwise; it never throws (lines 132-139).
getAttendanceStateNoCatch(db, ok) ==
    [state |-> IF ok THEN db ELSE EmptyState, thrown |-> ~ok]

getAttendanceState(db, ok) ==
    [state  |-> IF ok /\ DOMAIN db # {} THEN db ELSE EmptyState,
     thrown |-> FALSE]

\* saveAttendanceState: the database after set(); a failed write is logged
\* and leaves it as it was (lines 143-152).
saveAttendanceStateNoWrite(db, state, ok) == db

saveAttendanceState(db, state, ok) == IF ok THEN state ELSE db

\* send_telegram: the post may fail; the failure is caught (lines 93-98).
\* BOT_TOKEN and CHAT_ID are set (the module exits at load otherwise, lines
\* 16-21), so the early return of lines 87-90 is not taken.
send_telegramNoCatch(msg, ok) ==
    [msg |-> msg, delivered |-> ok, thrown |-> ~ok]

send_telegram(msg, ok) ==
    [msg |-> msg, delivered |-> ok, thrown |-> FALSE]

\* Object.keys(newState).length > 0  (line 197)
ShouldSaveAlways(ns) == TRUE

ShouldSave(ns) == DOMAIN ns # {}

---------------------------------------------------------------------------
(* The entry point, module.exports (lines 157-208) *)

NoLast ==
    [valid |-> FALSE, courses |-> <<>>, notes |-> <<>>, save |-> "none",
     prevState |-> EmptyState, completed |-> FALSE]

NoMsg ==
    [course |-> "", statusText |-> "", present |-> 0, total |-> 0,
     severity |-> "", action |-> 0]

NoInput == [prev |-> EmptyState, present |-> 0, total |-> 0]

\* The messages of a log, without their delivery outcome.
Notes(log) == [k \in 1..Len(log) |-> log[k].msg]

FreshRun ==
    /\ courses = <<>>
    /\ prevState = EmptyState
    /\ newState = EmptyState
    /\ i = 0
    /\ sent = <<>>
    /\ errorSent = <<>>
    /\ saves = <<>>
    /\ err = "none"
    /\ loadOk = TRUE

Init ==
    /\ stored = EmptyState
    /\ stored0 = EmptyState
    /\ pc = "login"
    /\ run = 1
    /\ last = NoLast
    /\ FreshRun
    /\ cpc = "off"
    /\ cIn = NoInput
    /\ cStatus = "none"
    /\ cMsg = NoMsg

\* const session = await login()  (lines 46-66, 163)
Login ==
    /\ pc = "login"
    /\ \/ /\ pc' = "fetch"
          /\ err' = err
       \/ /\ pc' = "catch"
          /\ err' = "Login failed"
    /\ UNCHANGED <<stored, run, courses, prevState, newState, i, sent,
                   errorSent, saves, loadOk, stored0, last, calcVars>>

\* const courses = await fetch_courses(...)  (lines 68-82, 166)
FetchCourses ==
    /\ pc = "fetch"
    /\ \/ \E cs \in CourseLists(MaxCount, MaxCourses) :
             /\ courses' = cs
             /\ pc' = "load"
             /\ err' = err
       \/ \E m \in {"Session expired or invalid", "Failed to fetch courses"} :
             /\ err' = m
             /\ pc' = "catch"
             /\ courses' = courses
    /\ UNCHANGED <<stored, run, prevState, newState, i, sent, errorSent,
                   saves, loadOk, stored0, last, calcVars>>

\* const prevState = await getAttendanceState(); const newState = {}
\* (lines 169-170), up to the head of the loop.
LoadState ==
    /\ pc = "load"
    /\ \E ok \in BOOLEAN :
          LET r == getAttendanceState(stored, ok) IN
          /\ loadOk' = ok
          /\ prevState' = r.state
          /\ newState' = InitialNewState(r.state)
          /\ IF r.thrown  \* never: the read's failure is caught inside
             THEN /\ pc' = "catch"
                  /\ err' = "Firebase read failed"
                  /\ i' = i
             ELSE /\ pc' = "loop"
                  /\ err' = err
                  /\ i' = 1
    /\ UNCHANGED <<stored, run, courses, sent, errorSent, saves, stored0,
                   last, calcVars>>

\* One iteration of the loop (lines 173-194).
ProcessCourse ==
    /\ pc = "loop"
    /\ i <= Len(courses)
    /\ LET c == courses[i] IN
       IF c.studentCourseCompDetails = <<>>
       THEN \* comp is undefined: comp.presentLecture throws
            /\ err' = "TypeError"
            /\ pc' = "catch"
            /\ UNCHANGED <<newState, i, sent>>
       ELSE LET code == c.courseCode
                comp == c.studentCourseCompDetails[1]
                present == comp.presentLecture
                total == comp.totalLecture
                old == OldCounters(prevState, code)
            IN /\ newState' = RecordCounters(newState, code, present, total)
               /\ IF Changed(old, present, total)
                  THEN \E ok \in BOOLEAN :
                         LET status == classify(old, present, total)
                             msg == calculateAttendanceMessage(code, present,
                                                               total, status)
                             r == send_telegram(msg, ok)
                         IN /\ sent' = Append(sent, [msg |-> r.msg,
                                                     delivered |-> r.delivered])
                            /\ IF r.thrown  \* never: caught inside
                               THEN /\ err' = "Telegram post failed"
                                    /\ pc' = "catch"
                                    /\ i' = i
                               ELSE /\ err' = err
                                    /\ pc' = pc
                                    /\ i' = i + 1
                  ELSE /\ sent' = sent
                       /\ err' = err
                       /\ pc' = pc
                       /\ i' = i + 1
    /\ UNCHANGED <<stored, run, courses, prevState, errorSent, saves, loadOk,
                   stored0, last, calcVars>>

\* After the loop: the guarded save (lines 196-201).
SaveState ==
    /\ pc = "loop"
    /\ i > Len(courses)
    /\ IF ShouldSave(newState)
       THEN \E ok \in BOOLEAN :
              /\ stored' = saveAttendanceState(stored, newState, ok)
              /\ saves' = Append(saves, [state |-> newState, ok |-> ok])
       ELSE UNCHANGED <<stored, saves>>
    /\ pc' = "done"
    /\ UNCHANGED <<run, courses, prevState, newState, i, sent, errorSent, err,
                   loadOk, stored0, last, calcVars>>

\* The catch block (lines 203-207).
CatchErrorThenSave ==
    /\ pc = "catch"
    /\ \E ok \in BOOLEAN :
          LET r == send_telegram(err, ok) IN
          errorSent' = Append(errorSent, [msg |-> r.msg,
                                          delivered |-> r.delivered])
    /\ IF ShouldSave(newState)
       THEN /\ stored' = saveAttendanceState(stored, newState, TRUE)
            /\ saves' = Append(saves, [state |-> newState, ok |-> TRUE])
       ELSE UNCHANGED <<stored, saves>>
    /\ pc' = "done"
    /\ UNCHANGED <<run, courses, prevState, newState, i, sent, err, loadOk,
                   stored0, last, calcVars>>

CatchError ==
    /\ pc = "catch"
    /\ \E ok \in BOOLEAN :
          LET r == send_telegram(err, ok) IN
          errorSent' = Append(errorSent, [msg |-> r.msg,
                                          delivered |-> r.delivered])
    /\ pc' = "done"
    /\ UNCHANGED <<stored, run, courses, prevState, newState, i, sent, saves,
                   err, loadOk, stored0, last, calcVars>>

\* The next timer tick: a new invocation, whose only inheritance is the
\* database.
NextInvocation ==
    /\ pc = "done"
    /\ run < MaxRuns
    /\ run' = run + 1
    /\ last' = [valid |-> TRUE, courses |-> courses, notes |-> Notes(sent),
                save |-> IF saves = <<>> THEN "none"
                         ELSE IF saves[Len(saves)].ok THEN "ok" ELSE "fail",
                prevState |-> prevState, completed |-> (err = "none")]
    /\ stored0' = stored
    /\ pc' = "login"
    /\ courses' = <<>>
    /\ prevState' = EmptyState
    /\ newState' = EmptyState
    /\ i' = 0
    /\ sent' = <<>>
    /\ errorSent' = <<>>
    /\ saves' = <<>>
    /\ err' = "none"
    /\ loadOk' = TRUE
    /\ UNCHANGED <<stored, calcVars>>

Next ==
    \/ Login
    \/ FetchCourses
    \/ LoadState
    \/ ProcessCourse
    \/ SaveState
    \/ CatchError
    \/ NextInvocation

Spec == Init /\ [][Next]_vars

---------------------------------------------------------------------------
(* The pure computations applied to drawn inputs *)

Counters(n) == [present : 0..n, total : 0..n]

InitCalc ==
    /\ stored = EmptyState
    /\ stored0 = EmptyState
    /\ pc = "off"
    /\ run = 1
    /\ last = NoLast
    /\ FreshRun
    /\ cpc = "classify"
    /\ cIn \in [prev : {EmptyState} \cup
                       {[k \in {"A"} |-> c] : c \in Counters(MaxLectures)},
                present : 0..MaxLectures,
                total : 0..MaxLectures]
    /\ cStatus = "none"
    /\ cMsg = NoMsg

ClassifyStep ==
    /\ cpc = "classify"
    /\ cStatus' = classify(OldCounters(cIn.prev, "A"), cIn.present, cIn.total)
    /\ cpc' = "calculate"
    /\ UNCHANGED <<cIn, cMsg, runVars>>

CalculateStep ==
    /\ cpc = "calculate"
    /\ cMsg' = calculateAttendanceMessage("A", cIn.present, cIn.total, cStatus)
    /\ cpc' = "done"
    /\ UNCHANGED <<cIn, cStatus, runVars>>

NextCalc == ClassifyStep \/ CalculateStep

SpecCalc == InitCalc /\ [][NextCalc]_vars

---------------------------------------------------------------------------
(* Vocabulary of the properties, stated from the inputs and the logs *)

Zero == [present |-> 0, total |-> 0]

WellFormed(c) == c.studentCourseCompDetails # <<>>

CountersOf(c) ==
    [present |-> c.studentCourseCompDetails[1].presentLecture,
     total   |-> c.studentCourseCompDetails[1].totalLecture]

\* What the run compares a course against.
PriorCounters(code) ==
    IF code \in DOMAIN prevState THEN prevState[code] ELSE Zero

Differs(c) == CountersOf(c) # PriorCounters(c.courseCode)

NonZero(c) == CountersOf(c) # Zero

Entry(c) ==
    [course |-> c.courseCode, present |-> CountersOf(c).present,
     total |-> CountersOf(c).total]

Entries(cs) == [k \in 1..Len(cs) |-> Entry(cs[k])]

\* The courses the attendance messages of the log are about.
Notified(log) ==
    [k \in 1..Len(log) |->
        [course |-> log[k].msg.course, present |-> log[k].msg.present,
         total |-> log[k].msg.total]]

\* The courses the loop has gone through.
Processed == SubSeq(courses, 1, i - 1)

\* The mapping of a fetch: each code to the counters of its last record.
LastIndex(cs, code) ==
    CHOOSE k \in 1..Len(cs) :
        /\ cs[k].courseCode = code
        /\ \A j \in (k + 1)..Len(cs) : cs[j].courseCode # code

SnapshotOf(cs) ==
    [code \in {cs[k].courseCode : k \in 1..Len(cs)} |->
        CountersOf(cs[LastIndex(cs, code)])]

UniqueCodes(cs) ==
    \A j, k \in 1..Len(cs) : cs[j].courseCode = cs[k].courseCode => j = k

Loaded == pc \in {"loop", "catch", "done"} /\ i >= 1

LoopComplete ==
    /\ pc \in {"loop", "done"}
    /\ err = "none"
    /\ i = Len(courses) + 1

Completed == pc = "done" /\ err = "none"

Aborted == pc = "done" /\ err # "none"

---------------------------------------------------------------------------
(* C1: over non-negative counters, with a course missing from the previous *)
(* snapshot compared against (0, 0), the classification is exactly one of  *)
(* the four statuses: Unchanged iff present and total are both equal;      *)
(* otherwise Present iff total and present both increased; otherwise       *)
(* Absent iff total increased and present is equal; otherwise Unknown.     *)
C1_ClassifierTotal ==
    cpc \in {"calculate", "done"} =>
        LET old == IF "A" \in DOMAIN cIn.prev THEN cIn.prev["A"] ELSE Zero
            same == cIn.present = old.present /\ cIn.total = old.total
            up == cIn.total > old.total
        IN /\ cStatus \in {"Unchanged", "Present", "Absent", "Unknown"}
           /\ cStatus = "Unchanged" <=> same
           /\ cStatus = "Present" <=> (~same /\ up /\ cIn.present > old.present)
           /\ cStatus = "Absent" <=> (~same /\ up /\ cIn.present = old.present)
           /\ cStatus = "Unknown" <=>
                 (~same /\ (cIn.total <= old.total \/ cIn.present < old.present))

C1_Witness ==
    /\ cpc = "done"
    /\ cIn.prev = EmptyState
    /\ cIn.present = 0
    /\ cIn.total = 2
    /\ cStatus = "Absent"

(* C2: once the course loop has completed, the new snapshot is exactly the *)
(* mapping of the current fetch (each fetched code to its latest counters, *)
(* no code known only to the previous snapshot), and the previous snapshot *)
(* is what was loaded, unmodified.                                         *)
C2_SnapshotIsCurrentFetch ==
    /\ LoopComplete => newState = SnapshotOf(courses)
    /\ Loaded => prevState = (IF loadOk THEN stored0 ELSE EmptyState)

C2_Witness ==
    /\ LoopComplete
    /\ pc = "done"
    /\ Len(courses) = 2
    /\ courses[1].courseCode = courses[2].courseCode
    /\ CountersOf(courses[1]) # CountersOf(courses[2])
    /\ \E code \in DOMAIN prevState : code \notin DOMAIN newState

(* C3: the attendance messages handed to the dispatcher are, in order,     *)
(* exactly the courses gone through whose counters differ from the         *)
(* previous snapshot: none for an unchanged course, one for each changed.  *)
C3_NotificationsAreChangedCourses ==
    Loaded => Notified(sent) = Entries(SelectSeq(Processed, Differs))

C3_Witness ==
    /\ LoopComplete
    /\ pc = "done"
    /\ Len(courses) = 2
    /\ ~Differs(courses[1])
    /\ NonZero(courses[1])
    /\ Differs(courses[2])
    /\ Len(sent) = 1

(* C4: a notification that could not be delivered does not abort the run:  *)
(* the run stops early only at a course that cannot be read, the courses   *)
(* after the failed delivery are recorded and notified as usual, and a run *)
(* over readable courses ends with the save of the new snapshot.           *)
C4_DeliveryFailureDoesNotAbort ==
    (\E k \in 1..Len(sent) : ~sent[k].delivered) =>
        /\ pc \in {"loop", "catch", "done"}
        /\ err # "none" => (i <= Len(courses) /\ ~WellFormed(courses[i]))
        /\ newState = SnapshotOf(Processed)
        /\ Notified(sent) = Entries(SelectSeq(Processed, Differs))
        /\ (pc = "done" /\ \A k \in 1..Len(courses) : WellFormed(courses[k])) =>
              /\ i = Len(courses) + 1
              /\ errorSent = <<>>
              /\ Len(saves) = 1
              /\ saves[1].state = SnapshotOf(courses)

C4_Witness ==
    /\ Completed
    /\ Len(sent) = 2
    /\ ~sent[1].delivered
    /\ sent[2].delivered
    /\ Len(saves) = 1
    /\ saves[1].ok
    /\ stored = SnapshotOf(courses)

(* C5: a completed run calls the save exactly when the fetch held at least *)
(* one course; with an empty fetch nothing is notified, the new snapshot   *)
(* is empty, no save is made and the stored snapshot stays as it was.      *)
C5_SaveOnlyIfCoursesFetched ==
    Completed =>
        /\ Len(saves) = (IF courses # <<>> THEN 1 ELSE 0)
        /\ saves # <<>> => saves[1].state = newState
        /\ courses = <<>> =>
              /\ sent = <<>>
              /\ DOMAIN newState = {}
              /\ stored = stored0

C5_Witness ==
    /\ Completed
    /\ courses = <<>>
    /\ DOMAIN prevState # {}
    /\ stored = prevState

(* C8: when the read of the stored snapshot fails or nothing is stored,    *)
(* the load yields the empty mapping and raises no error; every course is  *)
(* compared against (0, 0): notified iff its counters are not both zero;   *)
(* and the completed run saves the new snapshot.                           *)
C8_LoadFailureMeansFirstSeen ==
    (~loadOk \/ (Loaded /\ DOMAIN stored0 = {})) =>
        /\ Loaded
        /\ DOMAIN prevState = {}
        /\ err \in {"none", "TypeError"}
        /\ Notified(sent) = Entries(SelectSeq(Processed, NonZero))
        /\ (Completed /\ courses # <<>>) =>
              /\ Len(saves) = 1
              /\ saves[1].state = SnapshotOf(courses)

C8_Witness ==
    /\ Completed
    /\ ~loadOk
    /\ DOMAIN stored0 # {}
    /\ Len(courses) = 2
    /\ ~NonZero(courses[1])
    /\ NonZero(courses[2])
    /\ Len(sent) = 1
    /\ Len(saves) = 1

\* A completed run that fetched the list of the completed run before it,
\* with unique course codes.
SameFetchAgain ==
    /\ Completed
    /\ last.valid
    /\ last.completed
    /\ courses = last.courses
    /\ UniqueCodes(courses)

C10_AbortWritesNothing ==
    /\ Aborted =>
          /\ Len(errorSent) = 1
          /\ errorSent[1].msg = err
          /\ saves = <<>>
          /\ stored = stored0
    /\ saves # <<>> => (pc = "done" /\ LoopComplete)
    /\ err = "none" => errorSent = <<>>

C10_Witness ==
    /\ Aborted
    /\ err = "TypeError"
    /\ Len(sent) = 1
    /\ DOMAIN stored0 # {}
    /\ DOMAIN newState # {}
    /\ newState # stored

---------------------------------------------------------------------------
(* Numerical properties of calculateAttendanceMessage *)

\* (p / t >= 0.75) as the division evaluates: 0/0 is not a number and
\* compares false, p/0 with p > 0 is infinite.
RatioAtLeast75(p, t) == IF t = 0 THEN p > 0 ELSE 4 * p >= 3 * t

LeastAttendanceToReach75(x, p, t) ==
    /\ x >= 0
    /\ RatioAtLeast75(p + x, t + x)
    /\ \A y \in 0..(x - 1) : ~RatioAtLeast75(p + y, t + y)

(* C6: for every message whose counters are below 75% (0% when total is    *)
(* 0), the alert is Critical and the count printed is the smallest x >= 0  *)
(* with (present + x) / (total + x) >= 0.75.                               *)
C6_NeededIsLeast ==
    \A k \in 1..Len(sent) :
        LET m == sent[k].msg IN
        (m.total = 0 \/ 100 * m.present < 75 * m.total) =>
            /\ m.severity = "Critical"
            /\ LeastAttendanceToReach75(m.action, m.present, m.total)

\* Where total > 0 the count printed is the least one: this part of C6
\* holds under SpecCalc.
NeededIsLeastForPositiveTotal ==
    (cpc = "done" /\ cIn.total > 0 /\ 100 * cIn.present < 75 * cIn.total) =>
        /\ cMsg.severity = "Critical"
        /\ LeastAttendanceToReach75(cMsg.action, cIn.present, cIn.total)

(* C7: for every (present, total) at or above 75% (75% included), the      *)
(* alert is Secure and the count y printed satisfies                       *)
(* present / (total + y) >= 0.75 > present / (total + y + 1).              *)
C7_SkippableKeepsThreshold ==
    (cpc = "done" /\ cIn.total > 0 /\ 100 * cIn.present >= 75 * cIn.total) =>
        /\ cMsg.severity = "Secure"
        /\ cMsg.action >= 0
        /\ 4 * cIn.present >= 3 * (cIn.total + cMsg.action)
        /\ 4 * cIn.present < 3 * (cIn.total + cMsg.action + 1)

C7_Witness ==
    /\ cpc = "done"
    /\ cIn.present = 3
    /\ cIn.total = 4
    /\ cMsg.severity = "Secure"
    /\ cMsg.action = 0

=====
